---- MODULE Spec2Model ----
(***************************************************************************)
(* One invocation of the billing notification handler (src/src/main.rs):  *)
(* my_handler queries CloudWatch for the total cost, lists the billed      *)
(* services, queries the cost of each service, and send_to_slack then      *)
(* reads the region, fetches the webhook URL from SSM, builds the payload  *)
(* and posts it to Slack.                                                  *)
(*                                                                         *)
(* Costs are f64 in the source; here a cost is a natural number of cents   *)
(* (1234 stands for 12.34).  Option<T> is a sequence of length 0 or 1,     *)
(* Result<T, E> a record tagged "Ok" or "Err".  start_time and end_time of *)
(* the metric queries come from the clock and are left out of the inputs.  *)
(***************************************************************************)
EXTENDS Integers, Sequences, FiniteSets, TLC

VARIABLES pc, total, services, costs, billing, ssm_region, webhook_url,
          payload, calls, response, delivered, result

vars == <<pc, total, services, costs, billing, ssm_region, webhook_url,
          payload, calls, response, delivered, result>>

(* ------------------------------ bounds -------------------------------- *)

\* longest datapoint list a GetMetricStatistics response carries (the period
\* of a query equals its window, so the backend aggregates to one datapoint)
MaxDatapoints == 1

\* longest metric list a ListMetrics response carries
MaxMetrics == 2

(* ------------------------- Option and Result -------------------------- *)

None == <<>>

Some(v) == <<v>>

Ok(v) == [tag |-> "Ok", val |-> v]

Err(e) == [tag |-> "Err", err |-> e]

SeqsUpTo(S, n) == UNION {[1..k -> S] : k \in 0..n}

(* ------------------- values the collaborators return ------------------ *)

\* costs in cents that a datapoint may carry
CostValues == {0, 5, 500, 734, 1230, 1234}

ServiceNames == {"AmazonEC2", "AWSLambda"}

Datapoint == [maximum : {None} \cup {Some(v) : v \in CostValues}]

CloudWatchErrors == {"InternalServiceError"}

GetMetricStatisticsOutput ==
    {Err(e) : e \in CloudWatchErrors}
    \cup {Ok([datapoints |-> d]) :
            d \in {None} \cup {Some(s) : s \in SeqsUpTo(Datapoint, MaxDatapoints)}}

Dimension(n, v) == [name |-> n, value |-> v]

\* a listed metric: no dimension list, a list without a service name, or
\* the dimensions of one service's billing metric
Metric ==
    {[dimensions |-> None],
     [dimensions |-> Some(<<Dimension("Currency", "USD")>>)]}
    \cup {[dimensions |-> Some(<<Dimension("ServiceName", s),
                                 Dimension("Currency", "USD")>>)] :
            s \in ServiceNames}

ListMetricsOutput ==
    {Err(e) : e \in CloudWatchErrors}
    \cup {Ok([metrics |-> m]) :
            m \in {None} \cup {Some(s) : s \in SeqsUpTo(Metric, MaxMetrics)}}

\* results of env::var("AWS_REGION"): unset, or set to some text
EnvVarResult ==
    {Err("environment variable not found")}
    \cup {Ok(r) : r \in {"us-east-1", "ap-northeast-1", "mars-1"}}

\* the names Region::from_str accepts
RegionNames == {"us-east-1", "ap-northeast-1"}

SsmErrors == {"ParameterNotFound", "InternalServerError"}

ParameterValues == {"https://hooks.slack.com/services/T0/B0/X0", "hooks.slack.com"}

\* the texts Slack::new accepts as a URL
WellFormedUrls == {"https://hooks.slack.com/services/T0/B0/X0"}

GetParameterResult ==
    {Err(e) : e \in SsmErrors}
    \cup {Ok([parameter |-> None]),
          Ok([parameter |-> Some([value |-> None])])}
    \cup {Ok([parameter |-> Some([value |-> Some(v)])]) : v \in ParameterValues}

SlackSendResult == {Ok("sent"), Err("slack service error")}

(* ------------------------------ requests ------------------------------ *)

\* Duration::days(1).num_seconds()
Period == 86400

GetTotalCostInput ==
    [namespace   |-> "AWS/Billing",
     metric_name |-> "EstimatedCharges",
     dimensions  |-> <<Dimension("Currency", "USD")>>,
     statistics  |-> <<"Maximum">>,
     period      |-> Period]

\* get_cost as it would be with the Currency dimension forgotten
GetCostInputNoCurrency(service) ==
    [namespace   |-> "AWS/Billing",
     metric_name |-> "EstimatedCharges",
     dimensions  |-> <<[name |-> "ServiceName", value |-> service]>>,
     statistics  |-> <<"Maximum">>,
     period      |-> 86400]

GetCostInput(service) ==
    [namespace   |-> "AWS/Billing",
     metric_name |-> "EstimatedCharges",
     dimensions  |-> <<Dimension("Currency", "USD"),
                       Dimension("ServiceName", service)>>,
     statistics  |-> <<"Maximum">>,
     period      |-> Period]

ListMetricsInput ==
    [namespace   |-> "AWS/Billing",
     dimensions  |-> <<Dimension("ServiceName", None)>>,
     metric_name |-> None]

GetParameterRequest ==
    [name |-> "/billing-notification/slack-webhook-url",
     with_decryption |-> Some(TRUE)]

\* one external call as the collaborator saw it
Call(client, op, input, ok) ==
    [client |-> client, op |-> op, input |-> input, ok |-> ok]

(* --------------------------- pure functions --------------------------- *)

\* context.new_error(text): the HandlerError handed back to the runtime
new_error(text) == [message |-> text]

\* get_total_cost as it would be with the emptiness test off by one
TotalCostOfOffByOne(metric) ==
    IF metric.datapoints = None THEN 0
    ELSE LET dp == metric.datapoints[1] IN
         IF Len(dp) <= 1 THEN 0
         ELSE IF dp[2].maximum = None THEN 0 ELSE dp[2].maximum[1]

\* get_total_cost: datapoints.map(...).unwrap_or(0.0)
TotalCostOf(metric) ==
    IF metric.datapoints = None THEN 0
    ELSE LET dp == metric.datapoints[1] IN
         IF Len(dp) = 0 THEN 0
         ELSE IF dp[1].maximum = None THEN 0 ELSE dp[1].maximum[1]

\* get_cost: datapoints.map(...).unwrap_or(0.0)
ServiceCostOf(metric) ==
    IF metric.datapoints = None THEN 0
    ELSE LET dp == metric.datapoints[1] IN
         IF Len(dp) = 0 THEN 0
         ELSE IF dp[1].maximum = None THEN 0 ELSE dp[1].maximum[1]

RECURSIVE FlatMapDimensions(_)
\* metrics.into_iter().flat_map(|m| m.dimensions.unwrap_or_default())
FlatMapDimensions(metrics) ==
    IF metrics = <<>> THEN <<>>
    ELSE LET m == Head(metrics)
             ds == IF m.dimensions = None THEN <<>> ELSE m.dimensions[1]
         IN ds \o FlatMapDimensions(Tail(metrics))

RECURSIVE FilterMapServiceName(_)
\* .filter_map(|d| if d.name == "ServiceName" { Some(d.value) } else { None })
FilterMapServiceName(ds) ==
    IF ds = <<>> THEN <<>>
    ELSE LET d == Head(ds) IN
         (IF d.name = "ServiceName" THEN <<d.value>> ELSE <<>>)
         \o FilterMapServiceName(Tail(ds))

RECURSIVE Dedup(_)
Dedup(names) ==
    IF names = <<>> THEN <<>>
    ELSE LET rest == Dedup(SelectSeq(Tail(names), LAMBDA n : n # Head(names)))
         IN <<Head(names)>> \o rest

\* get_services_in_billing_namespace as it would be if it dropped repeated names
ServicesOfDedup(output) ==
    LET metrics == IF output.metrics = None THEN <<>> ELSE output.metrics[1]
    IN Dedup(FilterMapServiceName(FlatMapDimensions(metrics)))

\* the Ok arm of get_services_in_billing_namespace
ServicesOf(output) ==
    LET metrics == IF output.metrics = None THEN <<>> ELSE output.metrics[1]
    IN FilterMapServiceName(FlatMapDimensions(metrics))

\* format!("{}", cost) for an f64: the shortest decimal text that reads back
\* as the same number, so no trailing zeros and no point for a whole amount
DisplayF64(cents) ==
    LET whole == cents \div 100
        frac  == cents % 100
    IN ToString(whole) \o
       (IF frac = 0 THEN ""
        ELSE IF frac % 10 = 0 THEN "." \o ToString(frac \div 10)
        ELSE IF frac < 10 THEN ".0" \o ToString(frac)
        ELSE "." \o ToString(frac))

\* format!("${:.2}", cost): the amount with two decimal places
FormatCostTwoDecimals(cents) ==
    "$" \o ToString(cents \div 100) \o "."
        \o (IF cents % 100 < 10 THEN "0" ELSE "") \o ToString(cents % 100)

\* format!("${}", cost)
FormatCost(cents) == "$" \o DisplayF64(cents)

\* Field::new(service.name, format!("${}", service.cost), Some(true))
FieldOf(service) ==
    [title |-> service.name, value |-> FormatCost(service.cost), short |-> Some(TRUE)]

\* AttachmentBuilder::new("each service").fields(...).build().unwrap()
AttachmentOf(b) ==
    [fallback |-> "each service",
     fields   |-> [i \in 1..Len(b.services) |-> FieldOf(b.services[i])]]

\* the fixed text around the total (ASCII stand-ins for the Japanese template
\* "<prefix> ${} <suffix>" of the source)
TextPrefix == "kongetsu no seikyuugaku wa "

TextSuffix == " desu"

\* PayloadBuilder::new()...build().unwrap()
PayloadOf(b) ==
    [username    |-> "AWS Billing Notification",
     icon_emoji  |-> ":money_with_wings:",
     text        |-> TextPrefix \o FormatCost(b.total) \o TextSuffix,
     attachments |-> <<AttachmentOf(b)>>]

(* ------------------------------- state -------------------------------- *)

Init ==
    /\ pc = "Start"
    /\ total = None
    /\ services = <<>>
    /\ costs = <<>>
    /\ billing = None
    /\ ssm_region = None
    /\ webhook_url = None
    /\ payload = None
    /\ calls = <<>>
    /\ response = [tag |-> "None"]
    /\ delivered = <<>>
    /\ result = [tag |-> "None"]

\* the handler returns Err(error) to the runtime
Fail(text) ==
    /\ pc' = "Failed"
    /\ result' = Err(new_error(text))

\* an unwrap() on None or Err: the handler panics and returns no value
Panic ==
    /\ pc' = "Panicked"
    /\ UNCHANGED result

\* let total = client.get_total_cost()?
GetTotalCost ==
    /\ pc = "Start"
    /\ \E metric \in GetMetricStatisticsOutput :
        /\ calls' = Append(calls, Call("cloudwatch", "get_metric_statistics",
                                       GetTotalCostInput, metric.tag = "Ok"))
        /\ response' = metric
        /\ IF metric.tag = "Err"
           THEN Fail(metric.err) /\ UNCHANGED total
           ELSE /\ total' = Some(TotalCostOf(metric.val))
                /\ pc' = "ListServices"
                /\ UNCHANGED result
    /\ UNCHANGED <<services, costs, billing, ssm_region, webhook_url, payload, delivered>>

\* let services = client.get_services_in_billing_namespace()?
GetServicesInBillingNamespace ==
    /\ pc = "ListServices"
    /\ \E output \in ListMetricsOutput :
        /\ calls' = Append(calls, Call("cloudwatch", "list_metrics",
                                       ListMetricsInput, output.tag = "Ok"))
        /\ response' = output
        /\ IF output.tag = "Err"
           THEN Fail(output.err) /\ UNCHANGED services
           ELSE /\ services' = ServicesOf(output.val)
                /\ pc' = "GetCosts"
                /\ UNCHANGED result
    /\ UNCHANGED <<total, costs, billing, ssm_region, webhook_url, payload, delivered>>

\* get_cost as it would be if a failed query were skipped with a zero cost
GetCostSkipOnError ==
    /\ pc = "GetCosts"
    /\ Len(costs) < Len(services)
    /\ LET service == services[Len(costs) + 1] IN
       \E metric \in GetMetricStatisticsOutput :
        /\ calls' = Append(calls, Call("cloudwatch", "get_metric_statistics",
                                       GetCostInput(service), metric.tag = "Ok"))
        /\ response' = metric
        /\ costs' = Append(costs, [name |-> service,
                                   cost |-> IF metric.tag = "Err" THEN 0
                                            ELSE ServiceCostOf(metric.val)])
        /\ UNCHANGED <<pc, result>>
    /\ UNCHANGED <<total, services, billing, ssm_region, webhook_url, payload, delivered>>

\* get_cost as it would be if a failed query were issued again
GetCostRetryOnError ==
    /\ pc = "GetCosts"
    /\ Len(costs) < Len(services)
    /\ LET service == services[Len(costs) + 1] IN
       \E metric \in GetMetricStatisticsOutput :
        /\ calls' = Append(calls, Call("cloudwatch", "get_metric_statistics",
                                       GetCostInput(service), metric.tag = "Ok"))
        /\ response' = metric
        /\ IF metric.tag = "Err"
           THEN UNCHANGED <<pc, result, costs>>
           ELSE /\ costs' = Append(costs, [name |-> service,
                                           cost |-> ServiceCostOf(metric.val)])
                /\ UNCHANGED <<pc, result>>
    /\ UNCHANGED <<total, services, billing, ssm_region, webhook_url, payload, delivered>>

\* one step of services.iter().map(|service| client.get_cost(&service))
\*                 .collect::<Result<Vec<_>, _>>()?
GetCost ==
    /\ pc = "GetCosts"
    /\ Len(costs) < Len(services)
    /\ LET service == services[Len(costs) + 1] IN
       \E metric \in GetMetricStatisticsOutput :
        /\ calls' = Append(calls, Call("cloudwatch", "get_metric_statistics",
                                       GetCostInput(service), metric.tag = "Ok"))
        /\ response' = metric
        /\ IF metric.tag = "Err"
           THEN Fail(metric.err) /\ UNCHANGED costs
           ELSE /\ costs' = Append(costs, [name |-> service,
                                           cost |-> ServiceCostOf(metric.val)])
                /\ UNCHANGED <<pc, result>>
    /\ UNCHANGED <<total, services, billing, ssm_region, webhook_url, payload, delivered>>

\* my_handler as it would be if it went on to send_to_slack with the costs
\* fetched so far
BuildBillingPartial ==
    /\ pc = "GetCosts"
    /\ Len(costs) <= Len(services)
    /\ billing' = Some([total |-> total[1], services |-> costs])
    /\ pc' = "ReadRegion"
    /\ UNCHANGED <<total, services, costs, ssm_region, webhook_url, payload,
                   calls, response, delivered, result>>

\* let billing = Billing { total, services: costs }; send_to_slack(&c, billing)
BuildBilling ==
    /\ pc = "GetCosts"
    /\ Len(costs) = Len(services)
    /\ billing' = Some([total |-> total[1], services |-> costs])
    /\ pc' = "ReadRegion"
    /\ UNCHANGED <<total, services, costs, ssm_region, webhook_url, payload,
                   calls, response, delivered, result>>

\* let ssm_region = match env::var("AWS_REGION") { ... }
ReadRegion ==
    /\ pc = "ReadRegion"
    /\ \E region \in EnvVarResult :
        /\ response' = region
        /\ IF region.tag = "Err"
           THEN Fail(region.err) /\ UNCHANGED ssm_region
           ELSE IF region.val \notin RegionNames
           THEN Panic /\ UNCHANGED ssm_region
           ELSE /\ ssm_region' = Some(region.val)
                /\ pc' = "GetParameter"
                /\ UNCHANGED result
    /\ UNCHANGED <<total, services, costs, billing, webhook_url, payload, calls, delivered>>

\* let webhook_url = match ssm.get_parameter(...).sync() { ... }
GetParameter ==
    /\ pc = "GetParameter"
    /\ \E res \in GetParameterResult :
        /\ calls' = Append(calls, Call("ssm", "get_parameter",
                                       GetParameterRequest, res.tag = "Ok"))
        /\ response' = res
        /\ IF res.tag = "Err"
           THEN Fail(res.err) /\ UNCHANGED webhook_url
           ELSE IF res.val.parameter = None
           THEN Panic /\ UNCHANGED webhook_url
           ELSE IF res.val.parameter[1].value = None
           THEN Panic /\ UNCHANGED webhook_url
           ELSE /\ webhook_url' = res.val.parameter[1].value
                /\ pc' = "BuildPayload"
                /\ UNCHANGED result
    /\ UNCHANGED <<total, services, costs, billing, ssm_region, payload, delivered>>

\* the attachment and the payload are built, then Slack::new(url).unwrap()
BuildPayload ==
    /\ pc = "BuildPayload"
    /\ payload' = Some(PayloadOf(billing[1]))
    /\ IF webhook_url[1] \notin WellFormedUrls
       THEN Panic
       ELSE pc' = "Send" /\ UNCHANGED result
    /\ UNCHANGED <<total, services, costs, billing, ssm_region, webhook_url,
                   calls, response, delivered>>

\* send_to_slack as it would be if the result of slack.send were ignored
SlackSendIgnoresError ==
    /\ pc = "Send"
    /\ \E res \in SlackSendResult :
        /\ calls' = Append(calls, Call("slack", "send", payload[1], res.tag = "Ok"))
        /\ response' = res
        /\ delivered' = IF res.tag = "Ok" THEN Append(delivered, payload[1]) ELSE delivered
        /\ pc' = "Done"
        /\ result' = Ok("CustomOutput")
    /\ UNCHANGED <<total, services, costs, billing, ssm_region, webhook_url, payload>>

\* let res = slack.send(&payload); match res { ... }; Ok(CustomOutput {})
SlackSend ==
    /\ pc = "Send"
    /\ \E res \in SlackSendResult :
        /\ calls' = Append(calls, Call("slack", "send", payload[1], res.tag = "Ok"))
        /\ response' = res
        /\ IF res.tag = "Ok"
           THEN /\ delivered' = Append(delivered, payload[1])
                /\ pc' = "Done"
                /\ result' = Ok("CustomOutput")
           ELSE Fail(res.err) /\ UNCHANGED delivered
    /\ UNCHANGED <<total, services, costs, billing, ssm_region, webhook_url, payload>>

Next ==
    \/ GetTotalCost
    \/ GetServicesInBillingNamespace
    \/ GetCost
    \/ BuildBilling
    \/ ReadRegion
    \/ GetParameter
    \/ BuildPayload
    \/ SlackSend

Spec == Init /\ [][Next]_vars

\* every invocation ends: an action is enabled until pc is terminal
FairSpec == Spec /\ WF_vars(Next)

(* ------------------------- properties checked ------------------------- *)

CloudWatchCalls == SelectSeq(calls, LAMBDA c : c.client = "cloudwatch")

SsmCalls == SelectSeq(calls, LAMBDA c : c.client = "ssm")

SlackCalls == SelectSeq(calls, LAMBDA c : c.client = "slack")

IsCostQuery(c) ==
    /\ c.client = "cloudwatch"
    /\ c.op = "get_metric_statistics"
    /\ Len(c.input.dimensions) = 2

SomeCallFailed == \E i \in 1..Len(calls) : ~calls[i].ok

\* the handler has stopped without the success value
StepFailed == pc \in {"Failed", "Panicked"} \/ SomeCallFailed

\* the text each cost of CostValues is expected to be shown as
ExpectedText ==
    [c \in CostValues |->
        CASE c = 0    -> "$0"
          [] c = 5    -> "$0.05"
          [] c = 500  -> "$5"
          [] c = 734  -> "$7.34"
          [] c = 1230 -> "$12.3"
          [] c = 1234 -> "$12.34"]

Rows(message) == message.attachments[1].fields

\* C1: when any step has failed no notification has been delivered, and when
\* the handler has returned its success value exactly one notification has
\* been delivered by exactly one call of the transport.
C1_NotifyOnlyOnSuccess ==
    /\ StepFailed => delivered = <<>>
    /\ result.tag = "Ok" =>
         /\ pc = "Done"
         /\ Len(delivered) = 1
         /\ Len(SlackCalls) = 1
         /\ SlackCalls[1].ok
    /\ pc = "Done" => result.tag = "Ok"
    /\ Len(delivered) <= 1

C1_Witness ==
    /\ pc = "Done"
    /\ result.tag = "Ok"
    /\ Len(delivered) = 1
    /\ Len(calls) = 6

\* the secret store was called and gave no webhook URL
SecretResolutionFailed == Len(SsmCalls) > 0 /\ webhook_url = None

\* C2 as stated: when secret resolution has failed, no call to the metrics
\* backend has been made.
C2_SecretBeforeMetrics ==
    SecretResolutionFailed => Len(CloudWatchCalls) = 0

\* C2 as amended: the secret is resolved after aggregation; the secret store
\* is called once at most, after the total query, the list query and one
\* per-service query per name have all succeeded, and when secret resolution
\* has failed no notification call has been made.
C2_MetricsBeforeSecret ==
    /\ Len(SsmCalls) <= 1
    /\ \A i \in 1..Len(calls) :
         calls[i].client = "ssm" =>
           /\ i = Len(services) + 3
           /\ billing # None
           /\ \A j \in 1..(i - 1) : calls[j].client = "cloudwatch" /\ calls[j].ok
           /\ \A j \in (i + 1)..Len(calls) : calls[j].client = "slack"
    /\ SecretResolutionFailed =>
         /\ Len(SlackCalls) = 0
         /\ delivered = <<>>
         /\ pc \in {"Failed", "Panicked"}

C2_Witness ==
    /\ SecretResolutionFailed
    /\ ~calls[Len(calls)].ok
    /\ Len(services) = 2
    /\ Len(CloudWatchCalls) = 4

\* C3: once a per-service query has failed the handler has returned an error
\* carrying the backend's error text, no Billing value and no payload have
\* been built, and the secret store and the transport have not been called.
C3_PerServiceFailureAborts ==
    (\E i \in 1..Len(calls) : IsCostQuery(calls[i]) /\ ~calls[i].ok) =>
        /\ pc = "Failed"
        /\ result.tag = "Err"
        /\ result.err.message \in CloudWatchErrors
        /\ billing = None
        /\ payload = None
        /\ Len(SsmCalls) = 0
        /\ Len(SlackCalls) = 0
        /\ delivered = <<>>

C3_Witness ==
    /\ pc = "Failed"
    /\ services = <<"AmazonEC2", "AWSLambda">>
    /\ Len(costs) = 1
    /\ Len(calls) = 4
    /\ IsCostQuery(calls[4])
    /\ ~calls[4].ok
    /\ calls[4].input.dimensions[2].value = "AWSLambda"

\* the secret store answered not-found, or answered without an entry or
\* without a value
SecretMissing ==
    /\ Len(calls) > 0
    /\ calls[Len(calls)].client = "ssm"
    /\ \/ response.tag = "Err" /\ response.err = "ParameterNotFound"
       \/ response.tag = "Ok" /\ response.val.parameter = None
       \/ /\ response.tag = "Ok"
          /\ response.val.parameter # None
          /\ response.val.parameter[1].value = None

\* C4: when the secret store has answered not-found, or without an entry or
\* without a value, the handler has returned an error value and the
\* transport has not been called.
C4_SecretMissingIsError ==
    SecretMissing =>
        /\ pc = "Failed"
        /\ result.tag = "Err"
        /\ Len(SlackCalls) = 0
        /\ delivered = <<>>

\* C5: once aggregation has completed the metrics backend has received the
\* total query with [Currency=USD], then the list query, then one query per
\* entry of services, the i-th with [Currency=USD, ServiceName=services[i]],
\* and nothing else.
C5_QueriesIssued ==
    billing # None =>
        LET q == CloudWatchCalls IN
        /\ Len(q) = Len(services) + 2
        /\ q[1].op = "get_metric_statistics"
        /\ q[1].input.dimensions = <<[name |-> "Currency", value |-> "USD"]>>
        /\ q[2].op = "list_metrics"
        /\ \A i \in 1..Len(services) :
             /\ q[i + 2].op = "get_metric_statistics"
             /\ q[i + 2].input.dimensions =
                  <<[name |-> "Currency", value |-> "USD"],
                    [name |-> "ServiceName", value |-> services[i]]>>
        /\ \A i \in 1..Len(q) :
             q[i].op = "get_metric_statistics" =>
               /\ q[i].input.namespace = "AWS/Billing"
               /\ q[i].input.metric_name = "EstimatedCharges"
               /\ q[i].input.statistics = <<"Maximum">>

C5_Witness ==
    /\ billing # None
    /\ services = <<"AmazonEC2", "AmazonEC2">>
    /\ Len(CloudWatchCalls) = 4

\* the step just taken is a successful call of op
Returned(op) ==
    /\ Len(calls') = Len(calls) + 1
    /\ calls'[Len(calls')].op = op
    /\ calls'[Len(calls')].ok

\* the list of a response's metrics and of a metric's dimensions
MetricsIn(output) == IF output.metrics = None THEN <<>> ELSE output.metrics[1]

DimensionsIn(m) == IF m.dimensions = None THEN <<>> ELSE m.dimensions[1]

\* the positions <<metric, dimension>> of a response that name a service
NamePositions(output) ==
    LET M == MetricsIn(output) IN
    UNION {{<<i, j>> : j \in {k \in 1..Len(DimensionsIn(M[i])) :
                                DimensionsIn(M[i])[k].name = "ServiceName"}} :
             i \in 1..Len(M)}

\* the place of position p among the positions P in reading order
Rank(p, P) ==
    Cardinality({q \in P : q[1] < p[1] \/ (q[1] = p[1] /\ q[2] <= p[2])})

\* the value a response holds: its one datapoint's maximum if present, else 0
Reported(metric) ==
    IF /\ metric.datapoints # None
       /\ Len(metric.datapoints[1]) > 0
       /\ metric.datapoints[1][1].maximum # None
    THEN metric.datapoints[1][1].maximum[1]
    ELSE 0

\* C6, names: the k-th entry of services is the value of the k-th
\* ServiceName dimension of the list response in reading order, repeated
\* names included.
C6_NamesAsListed ==
    Returned("list_metrics") =>
        LET P == NamePositions(response'.val) IN
        /\ Len(services') = Cardinality(P)
        /\ \A p \in P :
             services'[Rank(p, P)] =
               DimensionsIn(MetricsIn(response'.val)[p[1]])[p[2]].value

\* C6, costs: the i-th per-service query adds the i-th entry, with the i-th
\* name and the value the response holds.
C6_CostAsReturned ==
    (Returned("get_metric_statistics") /\ pc = "GetCosts") =>
        /\ Len(costs') = Len(costs) + 1
        /\ costs'[Len(costs')] =
             [name |-> services[Len(costs')], cost |-> Reported(response'.val)]
        /\ \A i \in 1..Len(costs) : costs'[i] = costs[i]

\* C6, rows: Billing.services and the rows of the delivered attachment have
\* the length of services, entry by entry with the same name and the cost's
\* text (no row at all for an empty list).
C6_RowsAsComputed ==
    /\ billing # None =>
         /\ Len(billing[1].services) = Len(services)
         /\ \A i \in 1..Len(services) :
              billing[1].services[i] = costs[i] /\ costs[i].name = services[i]
    /\ pc = "Done" =>
         /\ Len(delivered) = 1
         /\ Len(delivered[1].attachments) = 1
         /\ Len(Rows(delivered[1])) = Len(services)
         /\ \A i \in 1..Len(services) :
              /\ Rows(delivered[1])[i].title = services[i]
              /\ Rows(delivered[1])[i].value = ExpectedText[costs[i].cost]

\* C6: service names are taken from the list response in order without
\* deduplication, and Billing.services and the delivered rows follow them
\* entry by entry with the cost of the i-th per-service query; an empty list
\* still yields a message, with zero rows.
C6_ServicesInOrder ==
    /\ []C6_RowsAsComputed
    /\ [][C6_NamesAsListed]_vars
    /\ [][C6_CostAsReturned]_vars

C6_Witness ==
    /\ pc = "Done"
    /\ services = <<"AWSLambda", "AWSLambda">>
    /\ Len(Rows(delivered[1])) = Len(services)

\* the cost the step just taken produced
ResultingCost ==
    IF pc = "Start" THEN total' ELSE
    IF Len(costs') = Len(costs) + 1 THEN Some(costs'[Len(costs')].cost) ELSE None

\* C7: a metric query that succeeds with one datapoint whose maximum v is
\* present yields the cost v; one that succeeds with no datapoint list, an
\* empty list or a datapoint without maximum yields 0; one that fails yields
\* an error and no cost.
C7_Step ==
    (Len(calls') = Len(calls) + 1
       /\ calls'[Len(calls')].op = "get_metric_statistics") =>
    LET r == response' IN
    IF r.tag = "Ok"
    THEN /\ (r.val.datapoints # None
               /\ Len(r.val.datapoints[1]) = 1
               /\ r.val.datapoints[1][1].maximum # None)
            => ResultingCost = Some(r.val.datapoints[1][1].maximum[1])
         /\ r.val.datapoints = None => ResultingCost = Some(0)
         /\ (r.val.datapoints # None /\ Len(r.val.datapoints[1]) = 0)
            => ResultingCost = Some(0)
         /\ (r.val.datapoints # None
               /\ Len(r.val.datapoints[1]) = 1
               /\ r.val.datapoints[1][1].maximum = None)
            => ResultingCost = Some(0)
    ELSE /\ ResultingCost = None
         /\ total' = total
         /\ costs' = costs
         /\ pc' = "Failed"
         /\ result'.tag = "Err"

C7_ScalarStatistic == [][C7_Step]_vars

C7_Witness ==
    /\ pc = "ListServices"
    /\ total = Some(1234)
    /\ response = Ok([datapoints |-> Some(<<[maximum |-> Some(1234)]>>)])

\* scenario A: total 12.34, AmazonEC2 5.00, AWSLambda 7.34, delivered
ScenarioA ==
    /\ pc = "Done"
    /\ billing = Some([total |-> 1234,
                       services |-> <<[name |-> "AmazonEC2", cost |-> 500],
                                      [name |-> "AWSLambda", cost |-> 734]>>])

\* a cost with exactly two decimal places
TwoDecimals(c) ==
    "$" \o ToString(c \div 100) \o "."
        \o ToString((c % 100) \div 10) \o ToString(c % 10)

\* C8 as stated: in scenario A the text holds "$12.34" and the rows are
\* ("AmazonEC2","$5.00"), ("AWSLambda","$7.34"); every cost is shown with two
\* decimal places.
C8_TwoDecimalPlaces ==
    /\ ScenarioA =>
         /\ delivered[1].text = TextPrefix \o "$12.34" \o TextSuffix
         /\ Len(Rows(delivered[1])) = 2
         /\ Rows(delivered[1])[1].title = "AmazonEC2"
         /\ Rows(delivered[1])[1].value = "$5.00"
         /\ Rows(delivered[1])[2].title = "AWSLambda"
         /\ Rows(delivered[1])[2].value = "$7.34"
    /\ pc = "Done" =>
         /\ delivered[1].text = TextPrefix \o TwoDecimals(billing[1].total) \o TextSuffix
         /\ \A i \in 1..Len(Rows(delivered[1])) :
              Rows(delivered[1])[i].value = TwoDecimals(billing[1].services[i].cost)

\* C8 as amended: in scenario A the text holds "$12.34" and the rows are
\* ("AmazonEC2","$5"), ("AWSLambda","$7.34"); every cost is shown as a dollar
\* sign and the shortest decimal text of the amount (no trailing zeros, no
\* point for a whole amount).
C8_ShortestDecimal ==
    /\ ScenarioA =>
         /\ delivered[1].text = TextPrefix \o "$12.34" \o TextSuffix
         /\ Len(Rows(delivered[1])) = 2
         /\ Rows(delivered[1])[1].title = "AmazonEC2"
         /\ Rows(delivered[1])[1].value = "$5"
         /\ Rows(delivered[1])[2].title = "AWSLambda"
         /\ Rows(delivered[1])[2].value = "$7.34"
    /\ pc = "Done" =>
         /\ delivered[1].text =
              TextPrefix \o ExpectedText[billing[1].total] \o TextSuffix
         /\ \A i \in 1..Len(Rows(delivered[1])) :
              Rows(delivered[1])[i].value = ExpectedText[billing[1].services[i].cost]

C8_Witness ==
    /\ ScenarioA
    /\ Len(delivered) = 1
    /\ Rows(delivered[1])[1].value = "$5"

\* C9: a failed external call is the last call of its invocation: the
\* handler has returned an error and takes no further step.
C9_StopAtFirstFailure ==
    \A i \in 1..Len(calls) :
        ~calls[i].ok =>
            /\ i = Len(calls)
            /\ pc = "Failed"
            /\ result.tag = "Err"
            /\ ~ENABLED Next

C9_Witness ==
    /\ pc = "Failed"
    /\ Len(services) = 2
    /\ Len(calls) = 3
    /\ IsCostQuery(calls[3])
    /\ ~calls[3].ok

\* C10: every invocation eventually ends Done with the output value or
\* Failed with an error value.
C10_EndsDoneOrFailed ==
    <>(\/ pc = "Done" /\ result.tag = "Ok"
       \/ pc = "Failed" /\ result.tag = "Err")

====
